---- MODULE Spec2Model ----
(***************************************************************************)
(* A model of the report generator: the Sampler (selectRandomChunks), the  *)
(* Highlight Compositor (highlightPdfText / addHighlightsToPdf, in the two *)
(* variants the repository holds), the Document Merger (mergePdfs) and the *)
(* submission pipeline of the page component (handleFile, simulateUpload,  *)
(* handleSubmit).                                                          *)
(***************************************************************************)
EXTENDS Integers, Sequences, FiniteSets, TLC

VARIABLES
    samp,       \* locals of the running selectRandomChunks call
    sampInput,  \* the arguments the caller passed (the caller's own view)
    samp2,      \* locals of a second call with the same arguments
    tape,       \* the values a fixed random source returns, read cyclically
    hl,         \* locals of the running highlightPdfText call
    hlInput,    \* the arguments highlightPdfText was called with
    mg,         \* locals of the running mergePdfs call
    mgInput,    \* the arguments mergePdfs was called with
    comp,       \* locals of an addHighlightsToPdf call of its own
    conv,       \* locals of a convertWordToPdf call of its own
    selectedFile,   \* useState: the chosen File, or NoFile for null
    isUploading,    \* useState
    uploadProgress, \* useState
    showModal,      \* useState
    aiReportValue,  \* useState: the option chosen in the AI select
    intervals,      \* the setInterval timers of simulateUpload not yet cleared
    uploads,        \* how many times simulateUpload has been called
    submits,        \* the handleSubmit invocations: locals and position
    downloads,      \* the calls of downloadFile
    lastAlert       \* the alert() shown last: the handleSubmit (0: handleFile) and its message

uiVars == <<selectedFile, isUploading, uploadProgress, showModal, aiReportValue,
            intervals, uploads, submits, downloads, lastAlert>>

vars == <<samp, sampInput, samp2, tape, hl, hlInput, mg, mgInput, comp, conv, uiVars>>

\* What the steps of one component leave alone.
replayVars == <<samp2, tape>>

hlVars == <<hl, hlInput>>

mgVars == <<mg, mgInput, comp, conv>>

libVars == <<samp, sampInput, samp2, tape, hl, hlInput, mg, mgInput, comp, conv>>

exceptSamp == <<sampInput, replayVars, hlVars, mgVars, uiVars>>

exceptSamp2 == <<samp, sampInput, tape, hlVars, mgVars, uiVars>>

exceptHl == <<hlInput, samp, sampInput, replayVars, mgVars, uiVars>>

exceptHlSamp == <<hlInput, replayVars, mgVars, uiVars>>

exceptMg == <<mgInput, comp, conv, samp, sampInput, replayVars, hlVars, uiVars>>

exceptComp == <<mg, mgInput, conv, samp, sampInput, replayVars, hlVars, uiVars>>

exceptConv == <<mg, mgInput, comp, samp, sampInput, replayVars, hlVars, uiVars>>

(***************************************************************************)
(* Generic helpers                                                         *)
(***************************************************************************)
Range(s) == {s[i] : i \in 1..Len(s)}

Min(a, b) == IF a <= b THEN a ELSE b

Abs(a) == IF a < 0 THEN -a ELSE a

RECURSIVE Flatten(_)
Flatten(ss) == IF ss = <<>> THEN <<>> ELSE Head(ss) \o Flatten(Tail(ss))

(***************************************************************************)
(* Text fragments.  A text is a sequence of characters; " " is the only    *)
(* whitespace character of the model's alphabet.                           *)
(***************************************************************************)
OneWord == <<"a">>

ThreeWords == <<"a", " ", "a", " ", "a">>

Texts == {OneWord, ThreeWords}

\* The geometry pdf.js reports for the n-th text run of a page.
ItemX == 50

LineStep == 14

TextItem(text, pageIndex, n) ==
    [text |-> text, x |-> ItemX, y |-> 10 + LineStep * (n - 1),
     width |-> 6 * Len(text), height |-> 12, pageIndex |-> pageIndex]

\* textItems.map(item => item.text).join(' ')
RECURSIVE JoinTexts(_)
JoinTexts(items) ==
    IF items = <<>> THEN <<>>
    ELSE IF Len(items) = 1 THEN items[1].text
    ELSE items[1].text \o <<" ">> \o JoinTexts(Tail(items))

\* allText.split(/\s+/).filter(Boolean).length: the maximal runs of
\* non-whitespace characters, counted by their first characters.
WordsIn(str) ==
    Cardinality({i \in 1..Len(str) : str[i] # " " /\ (i = 1 \/ str[i - 1] = " ")})

CalculateWordCount(items) == WordsIn(JoinTexts(items))

(***************************************************************************)
(* The random source.  All the code observes of a value v of Math.random() *)
(* is floor(v * 8), as the chunk size, and the sign of v - 0.5, as the     *)
(* comparator's result; floor(v * 8) decides both, so a draw is modelled   *)
(* by u = floor(v * 8).                                                    *)
(***************************************************************************)
ChunkSpread == 8

MinChunkSize == 3

RandomClasses == 0..(ChunkSpread - 1)

\* Math.floor(Math.random() * 8) + 3
ChunkSizeOf(u) == u + MinChunkSize

\* Math.random() - 0.5 < 0
ComparatorNegative(u) == 2 * u < ChunkSpread

(***************************************************************************)
(* selectRandomChunks                                                      *)
(***************************************************************************)
SamplerIdle ==
    [pc |-> "idle", textItems |-> <<>>, percentage |-> 0,
     totalWords |-> 0, wordsToHighlight |-> 0, i |-> 1,
     currentChunk |-> <<>>, chunks |-> <<>>, chunksToHighlight |-> 0,
     shuffledIndices |-> <<>>, sortJ |-> 0, sortPos |-> 0,
     randomCalls |-> 0, result |-> <<>>]

\* `chunks` hoisted to module scope: a call starts with what the last call left.
SamplerCalledStale(items, pct) ==
    [SamplerIdle EXCEPT !.pc = "called", !.textItems = items, !.percentage = pct,
                        !.chunks = samp.chunks]

\* A call of selectRandomChunks(textItems, percentage): fresh locals.
SamplerCalled(items, pct) ==
    [SamplerIdle EXCEPT !.pc = "called", !.textItems = items, !.percentage = pct]

\* `if (percentage < 0 ...)`: the boundary percentage = 0 falls through.
SelectRandomChunksEntryStrict(s) ==
    IF s.percentage < 0 \/ Len(s.textItems) = 0
    THEN [s EXCEPT !.pc = "returned", !.result = <<>>]
    ELSE [s EXCEPT !.pc = "chunking",
                   !.totalWords = CalculateWordCount(s.textItems),
                   !.wordsToHighlight =
                       (CalculateWordCount(s.textItems) * s.percentage) \div 100]

\* The guard, totalWords and wordsToHighlight.
SelectRandomChunksEntry(s) ==
    IF s.percentage <= 0 \/ Len(s.textItems) = 0
    THEN [s EXCEPT !.pc = "returned", !.result = <<>>]
    ELSE [s EXCEPT !.pc = "chunking",
                   !.totalWords = CalculateWordCount(s.textItems),
                   !.wordsToHighlight =
                       (CalculateWordCount(s.textItems) * s.percentage) \div 100]

\* Walking the list with textItems.shift() would consume the caller's array.
ChunkLoopIterShift(s, u) ==
    LET cc == Append(s.currentChunk, s.textItems[1])
        last == Len(s.textItems) = 1
        close == Len(cc) >= ChunkSizeOf(u) \/ last
    IN [s EXCEPT !.currentChunk = IF close THEN <<>> ELSE cc,
                 !.chunks = IF close THEN Append(@, cc) ELSE @,
                 !.textItems = Tail(@),
                 !.randomCalls = @ + 1,
                 !.pc = IF last THEN "counting" ELSE "chunking"]

\* One iteration of the chunking loop; u is the value the iteration draws.
ChunkLoopIter(s, u) ==
    LET cc == Append(s.currentChunk, s.textItems[s.i])
        last == s.i = Len(s.textItems)
        close == Len(cc) >= ChunkSizeOf(u) \/ last
    IN [s EXCEPT !.currentChunk = IF close THEN <<>> ELSE cc,
                 !.chunks = IF close THEN Append(@, cc) ELSE @,
                 !.i = @ + 1,
                 !.randomCalls = @ + 1,
                 !.pc = IF last THEN "counting" ELSE "chunking"]

(***************************************************************************)
(* The two divisions of the chunk count are divisions of IEEE 754 doubles: *)
(* each quotient is rounded to 53 significant bits, ties to even.  A       *)
(* 53-bit significand is kept in two limbs of 27 bits, value               *)
(* hi * 2^27 + lo.                                                         *)
(***************************************************************************)
MantissaBits == 53

LimbBase == 2^27

BigZero == [hi |-> 0, lo |-> 0]

\* 2 * x + bit
BigDouble(x, bit) ==
    LET lo2 == 2 * x.lo + bit
    IN [hi |-> 2 * x.hi + lo2 \div LimbBase, lo |-> lo2 % LimbBase]

BigGeq(x, y) == x.hi > y.hi \/ (x.hi = y.hi /\ x.lo >= y.lo)

\* x - y, for x >= y
BigSub(x, y) ==
    IF x.lo >= y.lo THEN [hi |-> x.hi - y.hi, lo |-> x.lo - y.lo]
    ELSE [hi |-> x.hi - y.hi - 1, lo |-> x.lo + LimbBase - y.lo]

BigInc(x) ==
    IF x.lo + 1 = LimbBase THEN [hi |-> x.hi + 1, lo |-> 0]
    ELSE [hi |-> x.hi, lo |-> x.lo + 1]

RECURSIVE BitLength(_)
BitLength(n) == IF n = 0 THEN 0 ELSE 1 + BitLength(n \div 2)

\* a / b scaled by a power of two into [1, 2): a * 2^-s / b with the s returned.
RECURSIVE ScaleQuotient(_, _, _)
ScaleQuotient(a, b, s) ==
    IF a < b THEN ScaleQuotient(2 * a, b, s - 1)
    ELSE IF a >= 2 * b THEN ScaleQuotient(a, 2 * b, s + 1)
    ELSE [a |-> a, b |-> b, s |-> s]

\* k more bits of the quotient by b after the bits d.m, the remainder being d.r.
RECURSIVE QuotientBits(_, _, _)
QuotientBits(d, b, k) ==
    IF k = 0 THEN d
    ELSE IF 2 * d.r >= b
         THEN QuotientBits([m |-> BigDouble(d.m, 1), r |-> 2 * d.r - b], b, k - 1)
         ELSE QuotientBits([m |-> BigDouble(d.m, 0), r |-> 2 * d.r], b, k - 1)

\* The double a / b of two positive integers: significand m of 53 bits and
\* exponent e, value m * 2^e.
DoubleOfQuotient(a, b) ==
    LET n == ScaleQuotient(a, b, 0)
        q == QuotientBits([m |-> [hi |-> 0, lo |-> 1], r |-> n.a - n.b], n.b,
                          MantissaBits - 1)
        up == 2 * q.r > n.b \/ (2 * q.r = n.b /\ q.m.lo % 2 = 1)
        m == IF up THEN BigInc(q.m) ELSE q.m
        top == [hi |-> LimbBase \div 2, lo |-> 0]
    IN IF m = top
       THEN [m |-> [hi |-> LimbBase \div 4, lo |-> 0], e |-> n.s - MantissaBits + 2]
       ELSE [m |-> m, e |-> n.s - MantissaBits + 1]

\* k steps of the long division by m: d.r is the remainder, d.q the quotient
\* so far.
RECURSIVE LongDivide(_, _, _)
LongDivide(d, m, k) ==
    IF k = 0 THEN d
    ELSE LET r2 == BigDouble(d.r, 0)
         IN IF BigGeq(r2, m)
            THEN LongDivide([q |-> BigDouble(d.q, 1), r |-> BigSub(r2, m)], m, k - 1)
            ELSE LongDivide([q |-> BigDouble(d.q, 0), r |-> r2], m, k - 1)

\* Math.ceil(w / d) for an integer w > 0 and a double d = m * 2^e with e < 0:
\* the integer part of the quotient, one more when the quotient rounded to 53
\* bits exceeds it.
CeilOfDoubleQuotient(w, d) ==
    LET whole == LongDivide([q |-> BigZero, r |-> [hi |-> 0, lo |-> w]], d.m, 0 - d.e)
        ip == whole.q.lo
        frac == LongDivide([q |-> BigZero, r |-> whole.r], d.m,
                           MantissaBits - BitLength(ip))
        r2 == BigDouble(frac.r, 0)
        last == IF MantissaBits > BitLength(ip) THEN frac.q.lo % 2 ELSE ip % 2
        up == (r2 # d.m /\ BigGeq(r2, d.m)) \/ (r2 = d.m /\ last = 1)
    IN IF ip = 0 THEN 1
       ELSE IF frac.q # BigZero \/ up THEN ip + 1
       ELSE ip

\* Math.ceil(wordsToHighlight / (totalWords / chunks.length)); with
\* totalWords = 0 the quotient is NaN and the loop that follows selects nothing.
ChunksToHighlight(s) ==
    IF s.totalWords = 0 \/ s.wordsToHighlight = 0 THEN 0
    ELSE CeilOfDoubleQuotient(s.wordsToHighlight,
                              DoubleOfQuotient(s.totalWords, Len(s.chunks)))

\* avgWordsPerChunk, chunksToHighlight and the index array handed to sort.
CountChunks(s) ==
    [s EXCEPT !.chunksToHighlight = ChunksToHighlight(s),
              !.shuffledIndices = [k \in 1..Len(s.chunks) |-> k],
              !.sortJ = 2, !.sortPos = 2,
              !.pc = IF Len(s.chunks) >= 2 THEN "sorting" ELSE "selecting"]

\* The sort writing the moved index over its neighbour without writing the
\* neighbour back.
SortCompareOverwrite(s, u) ==
    LET a == s.shuffledIndices
        p == s.sortPos
        moved == [a EXCEPT ![p - 1] = a[p]]
        n == Len(a)
        next == s.sortJ + 1
    IN IF ComparatorNegative(u) /\ p > 2
       THEN [s EXCEPT !.shuffledIndices = moved, !.sortPos = p - 1,
                      !.randomCalls = @ + 1]
       ELSE [s EXCEPT !.shuffledIndices = IF ComparatorNegative(u) THEN moved ELSE a,
                      !.sortJ = next, !.sortPos = next,
                      !.randomCalls = @ + 1,
                      !.pc = IF next > n THEN "selecting" ELSE "sorting"]

\* Array.prototype.sort with the comparator () => Math.random() - 0.5, as an
\* insertion sort: the element at sortPos moves one place down when the
\* comparator's result is negative, and the next element is taken up when it is
\* not or when the front is reached.  u is the value the comparator draws.
SortCompare(s, u) ==
    LET a == s.shuffledIndices
        p == s.sortPos
        moved == [a EXCEPT ![p] = a[p - 1], ![p - 1] = a[p]]
        n == Len(a)
        next == s.sortJ + 1
    IN IF ComparatorNegative(u) /\ p > 2
       THEN [s EXCEPT !.shuffledIndices = moved, !.sortPos = p - 1,
                      !.randomCalls = @ + 1]
       ELSE [s EXCEPT !.shuffledIndices = IF ComparatorNegative(u) THEN moved ELSE a,
                      !.sortJ = next, !.sortPos = next,
                      !.randomCalls = @ + 1,
                      !.pc = IF next > n THEN "selecting" ELSE "sorting"]

\* The selection loop: the first min(chunksToHighlight, chunks.length) chunks in
\* shuffled order, their fragments appended in chunk order.
SelectLoop(s) ==
    LET n == Min(s.chunksToHighlight, Len(s.chunks))
        picked == [k \in 1..n |-> s.chunks[s.shuffledIndices[k]]]
    IN [s EXCEPT !.result = Flatten(picked), !.pc = "returned"]

(***************************************************************************)
(* Page documents.  The bytes of a document are modelled by what they      *)
(* decode to: whether they parse at all, the pages (height, text runs,     *)
(* rectangles drawn on top) and the writer that serialised them, so that   *)
(* a document loaded and saved again by pdf-lib is not the same bytes as   *)
(* the upload it came from.                                                *)
(***************************************************************************)
FontSize == 12

\* The n-th text run of a page as pdf.js reports it:
\* transform = [scaleX, skewX, skewY, scaleY, translateX, translateY].
TextRun(text, n) ==
    [str |-> text,
     transform |-> <<FontSize, 0, 0, FontSize, ItemX, 10 + LineStep * (n - 1)>>,
     width |-> 6 * Len(text), height |-> FontSize]

Page(h, runs) == [height |-> h, runs |-> runs, rects |-> <<>>]

\* Bytes that are a page document.
PdfBytes(pages, writer) ==
    [valid |-> TRUE, pages |-> pages, writer |-> writer, docx |-> <<>>]

\* Bytes that are no page document at all.
MalformedBytes == [valid |-> FALSE, pages |-> <<>>, writer |-> "upload", docx |-> <<>>]

\* pdfDoc.save()
Save(pages) == PdfBytes(pages, "pdf-lib")

\* str.trim() === ''
IsBlank(str) == \A k \in 1..Len(str) : str[k] = " "

\* extractTextContent of pdfHighlighter.ts, one page: runs with a transform
\* and a non-empty string, width and height as pdf.js gives them.
RECURSIVE ItemsOfRunsHighlighter(_, _)
ItemsOfRunsHighlighter(runs, pageIndex) ==
    IF runs = <<>> THEN <<>>
    ELSE LET r == Head(runs)
             rest == ItemsOfRunsHighlighter(Tail(runs), pageIndex)
         IN IF r.str = <<>> THEN rest
            ELSE <<[text |-> r.str, x |-> r.transform[5], y |-> r.transform[6],
                    width |-> r.width, height |-> r.height,
                    pageIndex |-> pageIndex]>> \o rest

DefaultHeight == 12

\* extractTextContent of pdfHelpers.ts, one page: blank runs are skipped, a
\* missing width is estimated as length * |scaleX| * 0.6, the height is
\* |scaleY| or 12, and only runs of positive width and height are kept.
RECURSIVE ItemsOfRunsHelpers(_, _)
ItemsOfRunsHelpers(runs, pageIndex) ==
    IF runs = <<>> THEN <<>>
    ELSE LET r == Head(runs)
             rest == ItemsOfRunsHelpers(Tail(runs), pageIndex)
             width == IF r.width # 0 THEN r.width
                      ELSE (Len(r.str) * Abs(r.transform[1]) * 6) \div 10
             height == IF Abs(r.transform[4]) # 0 THEN Abs(r.transform[4])
                       ELSE DefaultHeight
         IN IF r.str = <<>> \/ IsBlank(r.str) THEN rest
            ELSE IF width > 0 /\ height > 0
            THEN <<[text |-> r.str, x |-> r.transform[5], y |-> r.transform[6],
                    width |-> width, height |-> height,
                    pageIndex |-> pageIndex]>> \o rest
            ELSE rest

\* The page loop of extractTextContent: pages in order, pageIndex from 0.
RECURSIVE ItemsOfPages(_, _, _)
ItemsOfPages(variant, pages, pageIndex) ==
    IF pages = <<>> THEN <<>>
    ELSE (IF variant = "pdfHighlighter"
          THEN ItemsOfRunsHighlighter(Head(pages).runs, pageIndex)
          ELSE ItemsOfRunsHelpers(Head(pages).runs, pageIndex))
         \o ItemsOfPages(variant, Tail(pages), pageIndex + 1)

ExtractTextContent(variant, bytes) == ItemsOfPages(variant, bytes.pages, 0)

\* The rectangle of pdfHighlighter.ts: flipped against the page height.
RectHighlighter(item, pageHeight) ==
    [x |-> item.x, y |-> pageHeight - item.y - item.height,
     width |-> item.width, height |-> item.height,
     color |-> "yellow", opacity |-> 40]

\* The rectangle of pdfHelpers.ts: the coordinates as extracted, 2 units
\* lower and 4 units higher.
RectHelpers(item, pageHeight) ==
    [x |-> item.x, y |-> item.y - 2,
     width |-> item.width, height |-> item.height + 4,
     color |-> "cyan", opacity |-> 30]

RectOf(variant, item, pageHeight) ==
    IF variant = "pdfHighlighter" THEN RectHighlighter(item, pageHeight)
    ELSE RectHelpers(item, pageHeight)

\* The drawing loop putting a fragment whose pageIndex is not a page of the
\* document on the last page.
RECURSIVE DrawHighlightsOnLastPage(_, _, _)
DrawHighlightsOnLastPage(variant, pages, items) ==
    IF items = <<>> \/ pages = <<>> THEN pages
    ELSE LET item == Head(items)
             k == Min(item.pageIndex + 1, Len(pages))
         IN DrawHighlightsOnLastPage(
                variant,
                [pages EXCEPT ![k].rects =
                    Append(@, RectOf(variant, item, pages[k].height))],
                Tail(items))

\* The drawing loop of addHighlightsToPdf: a fragment whose pageIndex is not a
\* page of the document is passed over, any other gets one rectangle on its page.
RECURSIVE DrawHighlights(_, _, _)
DrawHighlights(variant, pages, items) ==
    IF items = <<>> THEN pages
    ELSE LET item == Head(items)
             k == item.pageIndex + 1
         IN IF item.pageIndex >= Len(pages)
            THEN DrawHighlights(variant, pages, Tail(items))
            ELSE DrawHighlights(
                     variant,
                     [pages EXCEPT ![k].rects =
                         Append(@, RectOf(variant, item, pages[k].height))],
                     Tail(items))

\* addHighlightsToPdf on bytes PDFDocument.load accepts.
AddHighlightsToPdf(variant, bytes, items) ==
    Save(DrawHighlights(variant, bytes.pages, items))

(***************************************************************************)
(* highlightPdfText                                                        *)
(***************************************************************************)
Variants == {"pdfHighlighter", "pdfHelpers"}

(***************************************************************************)
(* addHighlightsToPdf step by step: PDFDocument.load, one iteration of the *)
(* loop per fragment, pdfDoc.save().                                       *)
(***************************************************************************)
CompIdle ==
    [pc |-> "idle", variant |-> "pdfHighlighter", pdfBytes |-> MalformedBytes,
     highlightItems |-> <<>>, pages |-> <<>>, i |-> 1, result |-> MalformedBytes]

CompCalled(variant, bytes, items) ==
    [CompIdle EXCEPT !.pc = "load", !.variant = variant, !.pdfBytes = bytes,
                     !.highlightItems = items]

\* PDFDocument.load and getPages; load throws on bytes that do not parse.
CompLoad(s) ==
    IF ~s.pdfBytes.valid THEN [s EXCEPT !.pc = "raised"]
    ELSE [s EXCEPT !.pages = s.pdfBytes.pages,
                   !.pc = IF s.highlightItems = <<>> THEN "save" ELSE "drawing"]

\* One iteration of `for (const item of highlightItems)`.
CompDrawItem(s) ==
    [s EXCEPT !.pages = DrawHighlights(s.variant, s.pages, <<s.highlightItems[s.i]>>),
              !.i = @ + 1,
              !.pc = IF s.i = Len(s.highlightItems) THEN "save" ELSE "drawing"]

CompSave(s) == [s EXCEPT !.result = Save(s.pages), !.pc = "returned"]

HlIdle ==
    [pc |-> "idle", variant |-> "pdfHighlighter", pdfBytes |-> MalformedBytes,
     percentage |-> 0, originalBytes |-> MalformedBytes, textItems |-> <<>>,
     threw |-> FALSE, result |-> MalformedBytes]

HlCalled(variant, bytes, pct) ==
    [HlIdle EXCEPT !.pc = "called", !.variant = variant, !.pdfBytes = bytes,
                   !.percentage = pct]

\* The early return, and in pdfHelpers.ts the copy of the bytes.
HlEntry(s) ==
    IF s.percentage <= 0
    THEN [s EXCEPT !.pc = "returned", !.result = s.pdfBytes]
    ELSE [s EXCEPT !.originalBytes = s.pdfBytes,
                   !.pc = IF s.variant = "pdfHelpers" THEN "loadcheck" ELSE "extract"]

\* A throw without the try block around it reaches the caller.
HlCatchNone(s) == [s EXCEPT !.pc = "raised", !.threw = TRUE]

\* The catch block: log and return the original bytes.
HlCatch(s) ==
    [s EXCEPT !.pc = "returned", !.threw = TRUE,
              !.result = IF s.variant = "pdfHelpers" THEN s.originalBytes
                         ELSE s.pdfBytes]

\* pdfHelpers.ts: try PDFDocument.load first, return the original on failure.
HlLoadCheck(s) ==
    IF s.pdfBytes.valid THEN [s EXCEPT !.pc = "extract"]
    ELSE [s EXCEPT !.pc = "returned", !.result = s.originalBytes]

\* extractTextContent; it throws on bytes pdf.js cannot parse and whenever the
\* pdf.js worker cannot be started (workerFails).
HlExtract(s, workerFails) ==
    IF ~s.pdfBytes.valid \/ workerFails THEN HlCatch(s)
    ELSE LET items == ExtractTextContent(s.variant, s.pdfBytes)
         IN IF s.variant = "pdfHelpers" /\ items = <<>>
            THEN [s EXCEPT !.textItems = items, !.pc = "returned",
                           !.result = s.originalBytes]
            ELSE [s EXCEPT !.textItems = items, !.pc = "select"]

\* addHighlightsToPdf(bytes, itemsToHighlight) and the return of its result.
HlComposite(s, itemsToHighlight) ==
    LET bytes == IF s.variant = "pdfHelpers" THEN s.originalBytes ELSE s.pdfBytes
    IN IF ~bytes.valid THEN HlCatch(s)
       ELSE [s EXCEPT !.pc = "returned",
                      !.result = AddHighlightsToPdf(s.variant, bytes, itemsToHighlight)]

(***************************************************************************)
(* mergePdfs                                                               *)
(***************************************************************************)
MgIdle ==
    [pc |-> "idle", turnitinPdfBytes |-> MalformedBytes,
     documentPdfBytes |-> MalformedBytes, mergedPages |-> <<>>,
     result |-> MalformedBytes]

MgCalled(turnitinBytes, documentBytes) ==
    [MgIdle EXCEPT !.pc = "load", !.turnitinPdfBytes = turnitinBytes,
                   !.documentPdfBytes = documentBytes]

\* PDFDocument.load of both inputs; either throws on bytes that do not parse,
\* and nothing in mergePdfs catches it.
MgLoad(s) ==
    IF s.turnitinPdfBytes.valid /\ s.documentPdfBytes.valid
    THEN [s EXCEPT !.pc = "copyTurnitin"]
    ELSE [s EXCEPT !.pc = "raised"]

\* copyPages(turnitinPdf, getPageIndices()) and addPage for each, in order.
MgCopyTurnitin(s) ==
    [s EXCEPT !.mergedPages = @ \o s.turnitinPdfBytes.pages, !.pc = "copyDocument"]

\* insertPage(0, page) instead of addPage(page) would put the document's pages
\* in front of the report's, last page first.
MgCopyDocumentInsertFront(s) ==
    [s EXCEPT !.mergedPages =
                  [k \in 1..Len(s.documentPdfBytes.pages) |->
                      s.documentPdfBytes.pages[Len(s.documentPdfBytes.pages) + 1 - k]] \o @,
              !.pc = "save"]

\* copyPages(documentPdf, getPageIndices()) and addPage for each, in order.
MgCopyDocument(s) ==
    [s EXCEPT !.mergedPages = @ \o s.documentPdfBytes.pages, !.pc = "save"]

\* mergedPdf.save()
MgSave(s) == [s EXCEPT !.result = Save(s.mergedPages), !.pc = "returned"]

\* mergePdfs as a whole: whether it returns, and what.
MergeThrows(turnitinBytes, documentBytes) ==
    MgLoad(MgCalled(turnitinBytes, documentBytes)).pc = "raised"

MergePdfs(turnitinBytes, documentBytes) ==
    MgSave(MgCopyDocument(MgCopyTurnitin(MgLoad(MgCalled(turnitinBytes, documentBytes))))).result

(***************************************************************************)
(* convertWordToPdf.  The text mammoth extracts is a sequence of lines     *)
(* (text.split('\n')), each a sequence of characters.  Widths are those of *)
(* Helvetica, in thousandths of the font size.                             *)
(***************************************************************************)
PageWidth == 595

PageHeight == 842

Margin == 50

LineHeight == 14

ConvertFontSize == 11

GlyphA == 556

GlyphSpace == 278

\* pageWidth - 2 * margin
MaxWidth == PageWidth - 2 * Margin

\* Bytes that are a Word document whose raw text is `lines`.
DocxBytes(lines) == [valid |-> FALSE, pages |-> <<>>, writer |-> "upload", docx |-> lines]

\* line.split(' '): the pieces between one space and the next, the empty
\* pieces included; a string with n spaces has n + 1 pieces.
SplitWords(str) ==
    LET spaces == {k \in 1..Len(str) : str[k] = " "}
        nth(j) == IF j = 0 THEN 0
                  ELSE IF j > Cardinality(spaces) THEN Len(str) + 1
                  ELSE CHOOSE k \in spaces : Cardinality({i \in spaces : i < k}) = j - 1
    IN [j \in 1..(Cardinality(spaces) + 1) |-> SubSeq(str, nth(j - 1) + 1, nth(j) - 1)]

\* font.widthOfTextAtSize(str, fontSize), times 1000: the sum of the glyphs'
\* widths.
WidthUnits(str) ==
    LET spaces == Cardinality({k \in 1..Len(str) : str[k] = " "})
    IN ConvertFontSize * (GlyphSpace * spaces + GlyphA * (Len(str) - spaces))

\* page.drawText(str, {x: margin, y, size: fontSize}) on the newest page.
DrawText(c, str) ==
    LET k == Len(c.pages)
        run == [str |-> str,
                transform |-> <<ConvertFontSize, 0, 0, ConvertFontSize, Margin, c.y>>,
                width |-> WidthUnits(str) \div 1000, height |-> ConvertFontSize]
    IN [c EXCEPT !.pages[k].runs = Append(@, run), !.y = c.y - LineHeight]

\* A page check that lets the cursor run down to the paper's edge.
NewPageAtPaperEdge(c) ==
    IF c.y < 0
    THEN [c EXCEPT !.pages = Append(@, Page(PageHeight, <<>>)), !.y = PageHeight - Margin]
    ELSE c

\* `if (y < margin) { page = pdfDoc.addPage(...); y = pageHeight - margin }`
NewPageIfNeeded(c) ==
    IF c.y < Margin
    THEN [c EXCEPT !.pages = Append(@, Page(PageHeight, <<>>)), !.y = PageHeight - Margin]
    ELSE c

\* currentLine + (currentLine ? ' ' : '') + word
TestLine(c, word) ==
    c.currentLine \o (IF c.currentLine # <<>> THEN <<" ">> ELSE <<>>) \o word

\* A word loop that starts the new line empty after a flush.
ConvertWordDropsPending(c, word) ==
    IF WidthUnits(TestLine(c, word)) > MaxWidth * 1000 /\ c.currentLine # <<>>
    THEN NewPageIfNeeded([DrawText(c, c.currentLine) EXCEPT !.currentLine = <<>>])
    ELSE [c EXCEPT !.currentLine = TestLine(c, word)]

\* One iteration of `for (const word of words)`.
ConvertWord(c, word) ==
    IF WidthUnits(TestLine(c, word)) > MaxWidth * 1000 /\ c.currentLine # <<>>
    THEN NewPageIfNeeded([DrawText(c, c.currentLine) EXCEPT !.currentLine = word])
    ELSE [c EXCEPT !.currentLine = TestLine(c, word)]

\* The word loop of one line.
RECURSIVE WrapWords(_, _)
WrapWords(c, words) ==
    IF words = <<>> THEN c
    ELSE WrapWords(ConvertWord(c, Head(words)), Tail(words))

\* `if (currentLine) { page.drawText(currentLine, ...); y -= lineHeight }` and
\* the page check that follows it.
FlushRemaining(c) ==
    NewPageIfNeeded(IF c.currentLine # <<>> THEN DrawText(c, c.currentLine) ELSE c)

\* The line loop.
RECURSIVE ConvertLines(_, _)
ConvertLines(c, lines) ==
    IF lines = <<>> THEN c
    ELSE ConvertLines(
             FlushRemaining(WrapWords([c EXCEPT !.currentLine = <<>>],
                                      SplitWords(Head(lines)))),
             Tail(lines))

\* mammoth.extractRawText rejects bytes that are no Word document.
ConvertThrows(bytes) == bytes.docx = <<>>

ConvertWordToPdf(bytes) ==
    Save(ConvertLines([pages |-> <<Page(PageHeight, <<>>)>>, y |-> PageHeight - Margin,
                       currentLine |-> <<>>],
                      bytes.docx).pages)

(***************************************************************************)
(* convertWordToPdf step by step: the text is extracted, then every line   *)
(* is split and its words go through the word loop one at a time.          *)
(***************************************************************************)
ConvIdle ==
    [pc |-> "idle", file |-> MalformedBytes, lines |-> <<>>, i |-> 1, words |-> <<>>,
     pages |-> <<>>, y |-> 0, currentLine |-> <<>>, result |-> MalformedBytes]

ConvCalled(bytes) == [ConvIdle EXCEPT !.pc = "extract", !.file = bytes]

\* extractRawText, text.split('\n'), the first addPage, y = pageHeight - margin.
ConvExtract(c) ==
    IF ConvertThrows(c.file) THEN [c EXCEPT !.pc = "raised"]
    ELSE [c EXCEPT !.lines = c.file.docx, !.pages = <<Page(PageHeight, <<>>)>>,
                   !.y = PageHeight - Margin, !.pc = "line"]

\* `const words = line.split(' '); let currentLine = ''`
ConvLineStart(c) ==
    [c EXCEPT !.words = SplitWords(c.lines[c.i]), !.currentLine = <<>>,
              !.pc = "word"]

ConvWord(c) ==
    [ConvertWord(c, Head(c.words)) EXCEPT !.words = Tail(c.words)]

ConvLineEnd(c) ==
    [FlushRemaining(c) EXCEPT !.i = c.i + 1, !.pc = "line"]

ConvSave(c) == [c EXCEPT !.result = Save(c.pages), !.pc = "returned"]

(***************************************************************************)
(* What a call of selectRandomChunks or highlightPdfText can return, as    *)
(* sets: the pipeline calls them between two of its own steps.             *)
(***************************************************************************)
MaxChunkSize == MinChunkSize + ChunkSpread - 1

\* The chunk lists the chunking loop can build: every chunk but the last is
\* closed at a size of 3..10, the last at the end of the list.
RECURSIVE Chunkings(_)
Chunkings(items) ==
    IF items = <<>> THEN {<<>>}
    ELSE LET n == Len(items)
             sizes == {k \in 1..Min(n, MaxChunkSize) : k = n \/ k >= MinChunkSize}
         IN UNION {{<<SubSeq(items, 1, k)>> \o rest :
                        rest \in Chunkings(SubSeq(items, k + 1, n))} : k \in sizes}

IndexOrders(n) == {q \in [1..n -> 1..n] : \A i, j \in 1..n : q[i] = q[j] => i = j}

Selections(items, pct) ==
    IF pct <= 0 \/ items = <<>> THEN {<<>>}
    ELSE LET words == CalculateWordCount(items)
             count(chunks) ==
                 Min(ChunksToHighlight([totalWords |-> words,
                                        wordsToHighlight |-> (words * pct) \div 100,
                                        chunks |-> chunks]),
                     Len(chunks))
         IN UNION {{Flatten([k \in 1..count(chunks) |-> chunks[q[k]]]) :
                        q \in IndexOrders(Len(chunks))} : chunks \in Chunkings(items)}

HighlightOutcomes(variant, bytes, pct) ==
    IF pct <= 0 \/ ~bytes.valid THEN {bytes}
    ELSE LET items == ExtractTextContent(variant, bytes)
         IN {bytes} \cup
            (IF variant = "pdfHelpers" /\ items = <<>> THEN {}
             ELSE {AddHighlightsToPdf(variant, bytes, sel) : sel \in Selections(items, pct)})

(***************************************************************************)
(* The page component: files, handleFile, simulateUpload, handleSubmit     *)
(***************************************************************************)
TypePdf == "application/pdf"

TypeDoc == "application/msword"

TypeDocx == "application/vnd.openxmlformats-officedocument.wordprocessingml.document"

ValidTypes == {TypePdf, TypeDoc, TypeDocx}

ValidExtensions == {"pdf", "doc", "docx"}

\* 10 * 1024 * 1024
MaxSize == 10 * 1024 * 1024

\* A File: its name split at the dots, its media type, its size, its bytes.
File(name, type, size, bytes) == [name |-> name, type |-> type, size |-> size, bytes |-> bytes]

\* selectedFile === null
NoFile == File(<<>>, "", 0, MalformedBytes)

\* name.split('.').pop()?.toLowerCase(); the model's names are lower case.
ExtensionOf(file) == file.name[Len(file.name)]

\* `turnitin_${name.replace(/\.[^.]+$/, '')}.pdf`, split at the dots
OutputFilename(file) ==
    LET n == Len(file.name)
        base == IF n > 1 THEN SubSeq(file.name, 1, n - 1) ELSE file.name
    IN <<"turnitin_">> \o base \o <<"pdf">>

\* The validation of handleFile: "ok" or the message alerted.
Validate(file) ==
    IF file.type \notin ValidTypes /\ ExtensionOf(file) \notin ValidExtensions
    THEN "Please upload a PDF, DOC, or DOCX file."
    ELSE IF file.size > MaxSize THEN "File size must be less than 10MB."
    ELSE "ok"

\* The options of the AI select are '*' and decimal numbers.
DigitValue(d) ==
    CASE d = "0" -> 0 [] d = "1" -> 1 [] d = "2" -> 2 [] d = "3" -> 3 [] d = "4" -> 4
      [] d = "5" -> 5 [] d = "6" -> 6 [] d = "7" -> 7 [] d = "8" -> 8 [] d = "9" -> 9

RECURSIVE ParseInt(_)
ParseInt(str) ==
    IF str = <<>> THEN 0
    ELSE 10 * ParseInt(SubSeq(str, 1, Len(str) - 1)) + DigitValue(str[Len(str)])

DigitOf(n) == CHOOSE d \in {"0", "1", "2", "3", "4", "5", "6", "7", "8", "9"} : DigitValue(d) = n

\* Number.prototype.toString of a non-negative integer
RECURSIVE NumberToString(_)
NumberToString(n) == IF n < 10 THEN <<DigitOf(n)>> ELSE NumberToString(n \div 10) \o <<DigitOf(n % 10)>>

Star == <<"*">>

AiRandomBase == 20

\* Math.floor(Math.random() * 30 + 20), d = floor(Math.random() * 30)
RandomAi(d) == d + AiRandomBase

Stages == <<"normalise", "cover", "highlight", "merge", "download">>

RunUnused ==
    [pc |-> "unused", file |-> NoFile, ai |-> <<"0">>, converted |-> FALSE,
     documentPdfBytes |-> MalformedBytes, aiPercent |-> <<>>,
     turnitinPdfBytes |-> MalformedBytes, aiPercentageNum |-> 0,
     highlightedPdfBytes |-> MalformedBytes, mergedPdfBytes |-> MalformedBytes,
     coverStatus |-> "none", log |-> <<>>, failedAt |-> "none",
     abandoned |-> FALSE]

\* Where a handleSubmit that has not returned can be waiting.
InFlight ==
    {"normalising", "metadata", "fetching", "importing", "highlighting", "merging"}

Started(stage) == <<stage, "start">>

Ended(stage) == <<stage, "end">>

\* The page before any file is chosen, and no handleSubmit started.
UiIdle ==
    /\ selectedFile = NoFile
    /\ isUploading = FALSE
    /\ uploadProgress = 0
    /\ showModal = FALSE
    /\ aiReportValue = <<"0">>
    /\ intervals = {}
    /\ uploads = 0
    /\ submits = <<>>
    /\ downloads = <<>>
    /\ lastAlert = <<0, "">>

(***************************************************************************)
(* The Sampler as a state machine over samp                                *)
(***************************************************************************)
SamplerCall ==
    /\ samp.pc = "idle"
    /\ samp' = SamplerCalled(sampInput.textItems, sampInput.percentage)
    /\ UNCHANGED exceptSamp

SamplerEnter ==
    /\ samp.pc = "called"
    /\ samp' = SelectRandomChunksEntry(samp)
    /\ UNCHANGED exceptSamp

SamplerChunkStep ==
    /\ samp.pc = "chunking"
    /\ \E u \in RandomClasses : samp' = ChunkLoopIter(samp, u)
    /\ UNCHANGED exceptSamp

SamplerCountStep ==
    /\ samp.pc = "counting"
    /\ samp' = CountChunks(samp)
    /\ UNCHANGED exceptSamp

SamplerSortStep ==
    /\ samp.pc = "sorting"
    /\ \E u \in RandomClasses : samp' = SortCompare(samp, u)
    /\ UNCHANGED exceptSamp

SamplerSelectStep ==
    /\ samp.pc = "selecting"
    /\ samp' = SelectLoop(samp)
    /\ UNCHANGED exceptSamp

(***************************************************************************)
(* SpecSampler: selectRandomChunks on every fragment list of up to         *)
(* MaxFrags fragments and every percentage of Percentages.                 *)
(***************************************************************************)
MaxFrags == 7

Percentages == {-1, 0, 1, 40, 100}

\* The fragments a page document of n text runs yields, two runs to a page.
ItemLists(n) ==
    {[k \in 1..n |-> TextItem(t[k], (k - 1) \div 2, k)] : t \in [1..n -> Texts]}

SamplerInputs == UNION {ItemLists(n) : n \in 0..MaxFrags}

InitSampler ==
    /\ samp = SamplerIdle
    /\ samp2 = SamplerIdle
    /\ tape = <<>>
    /\ hl = HlIdle
    /\ hlInput = [pdfBytes |-> MalformedBytes, percentage |-> 0]
    /\ mg = MgIdle
    /\ comp = CompIdle
    /\ conv = ConvIdle
    /\ mgInput = [turnitinPdfBytes |-> MalformedBytes, documentPdfBytes |-> MalformedBytes]
    /\ UiIdle
    /\ \E items \in SamplerInputs, pct \in Percentages :
          sampInput = [textItems |-> items, percentage |-> pct]

NextSampler ==
    \/ SamplerCall
    \/ SamplerEnter
    \/ SamplerChunkStep
    \/ SamplerCountStep
    \/ SamplerSortStep
    \/ SamplerSelectStep

SpecSampler == InitSampler /\ [][NextSampler]_vars

\* The largest word count of a chunk.
MaxChunkWords(chunks) ==
    IF chunks = <<>> THEN 0
    ELSE LET ws == {CalculateWordCount(chunks[k]) : k \in 1..Len(chunks)}
         IN CHOOSE w \in ws : \A v \in ws : v <= w

\* C2: for a percentage in 1..100, the word count of the returned selection is
\* within one chunk's word count (the largest chunk's, at most) of
\* wordsToHighlight.
C2_WithinOneChunk ==
    (samp.pc = "returned" /\ samp.percentage \in 1..100 /\ samp.chunks # <<>>)
        => Abs(CalculateWordCount(samp.result) - samp.wordsToHighlight)
               <= MaxChunkWords(samp.chunks)

\* C3: the call leaves the caller's list as it was, and every fragment of the
\* returned selection is a fragment of that list, equal to it in every field.
C3_SubsetUnchanged ==
    /\ samp.pc # "idle" => samp.textItems = sampInput.textItems
    /\ samp.pc = "returned" =>
          \A k \in 1..Len(samp.result) : samp.result[k] \in Range(sampInput.textItems)

C3_Witness ==
    /\ samp.pc = "returned"
    /\ Len(samp.result) >= MinChunkSize
    /\ Len(samp.result) < Len(sampInput.textItems)

\* C7: with percentage <= 0 or an empty list the call returns the empty
\* selection and never calls the random source.
C7_EmptyWithoutRandom ==
    (sampInput.percentage <= 0 \/ sampInput.textItems = <<>>) =>
        /\ samp.randomCalls = 0
        /\ samp.pc \in {"idle", "called", "returned"}
        /\ samp.pc = "returned" => samp.result = <<>>

C7_Witness ==
    /\ samp.pc = "returned"
    /\ sampInput.percentage = 0
    /\ Len(sampInput.textItems) >= MinChunkSize

(***************************************************************************)
(* SpecReplay: two calls with the same arguments, each reading a fixed     *)
(* random source from its start.  The source returns the values of tape,   *)
(* cyclically; a call's n-th draw (n from 0) is SourceValue(n).            *)
(***************************************************************************)
TapeLen == 2

MaxReplayFrags == 7

SourceValue(n) == tape[(n % Len(tape)) + 1]

\* The step of selectRandomChunks at s, drawing from the fixed source.
SourceStep(s) ==
    CASE s.pc = "called" -> SelectRandomChunksEntry(s)
      [] s.pc = "chunking" -> ChunkLoopIter(s, SourceValue(s.randomCalls))
      [] s.pc = "counting" -> CountChunks(s)
      [] s.pc = "sorting" -> SortCompare(s, SourceValue(s.randomCalls))
      [] s.pc = "selecting" -> SelectLoop(s)

Running == {"called", "chunking", "counting", "sorting", "selecting"}

ReplayFirstStep ==
    /\ samp.pc \in Running
    /\ samp' = SourceStep(samp)
    /\ UNCHANGED exceptSamp

ReplaySecondCall ==
    /\ samp.pc = "returned"
    /\ samp2.pc = "idle"
    /\ samp2' = SamplerCalled(sampInput.textItems, sampInput.percentage)
    /\ UNCHANGED exceptSamp2

ReplaySecondStep ==
    /\ samp2.pc \in Running
    /\ samp2' = SourceStep(samp2)
    /\ UNCHANGED exceptSamp2

ReplayInputs == {[k \in 1..n |-> TextItem(OneWord, (k - 1) \div 2, k)] : n \in 0..MaxReplayFrags}

InitReplay ==
    /\ samp = SamplerIdle
    /\ samp2 = SamplerIdle
    /\ tape \in [1..TapeLen -> RandomClasses]
    /\ hl = HlIdle
    /\ hlInput = [pdfBytes |-> MalformedBytes, percentage |-> 0]
    /\ mg = MgIdle
    /\ comp = CompIdle
    /\ conv = ConvIdle
    /\ mgInput = [turnitinPdfBytes |-> MalformedBytes, documentPdfBytes |-> MalformedBytes]
    /\ UiIdle
    /\ \E items \in ReplayInputs, pct \in Percentages :
          sampInput = [textItems |-> items, percentage |-> pct]

NextReplay ==
    \/ SamplerCall
    \/ ReplayFirstStep
    \/ ReplaySecondCall
    \/ ReplaySecondStep

SpecReplay == InitReplay /\ [][NextReplay]_vars

MaxDocPages == 2

MaxRunsPerPage == 2

PageHeights == {792, 842}

HlPercentages == {0, 40, 100}

PagesOf(n) ==
    {[k \in 1..n |-> Page(h[k], [j \in 1..c[k] |-> TextRun(OneWord, j)])] :
        h \in [1..n -> PageHeights], c \in [1..n -> 0..MaxRunsPerPage]}

BodyDocs ==
    {MalformedBytes} \cup
    UNION {{PdfBytes(pages, "upload") : pages \in PagesOf(n)} : n \in 0..MaxDocPages}

HlCall ==
    /\ hl.pc = "idle"
    /\ hl' = HlCalled(hl.variant, hlInput.pdfBytes, hlInput.percentage)
    /\ UNCHANGED exceptHl

HlEntryStep ==
    /\ hl.pc = "called"
    /\ hl' = HlEntry(hl)
    /\ UNCHANGED exceptHl

HlLoadCheckStep ==
    /\ hl.pc = "loadcheck"
    /\ hl' = HlLoadCheck(hl)
    /\ UNCHANGED exceptHl

HlExtractStep ==
    /\ hl.pc = "extract"
    /\ \E workerFails \in BOOLEAN : hl' = HlExtract(hl, workerFails)
    /\ UNCHANGED exceptHl

\* selectRandomChunks(textItems, percentage) is called ...
HlSelectCall ==
    /\ hl.pc = "select"
    /\ hl' = [hl EXCEPT !.pc = "sampling"]
    /\ samp' = SamplerCalled(hl.textItems, hl.percentage)
    /\ sampInput' = [textItems |-> hl.textItems, percentage |-> hl.percentage]
    /\ UNCHANGED exceptHlSamp

\* ... and its selection goes to addHighlightsToPdf.
HlCompositeStep ==
    /\ hl.pc = "sampling"
    /\ samp.pc = "returned"
    /\ hl' = HlComposite(hl, samp.result)
    /\ UNCHANGED exceptHl

InitHighlight ==
    /\ samp = SamplerIdle
    /\ samp2 = SamplerIdle
    /\ tape = <<>>
    /\ sampInput = [textItems |-> <<>>, percentage |-> 0]
    /\ \E v \in Variants : hl = [HlIdle EXCEPT !.variant = v]
    /\ \E bytes \in BodyDocs, pct \in HlPercentages :
          hlInput = [pdfBytes |-> bytes, percentage |-> pct]
    /\ mg = MgIdle
    /\ comp = CompIdle
    /\ conv = ConvIdle
    /\ mgInput = [turnitinPdfBytes |-> MalformedBytes, documentPdfBytes |-> MalformedBytes]
    /\ UiIdle

NextHighlight ==
    \/ HlCall
    \/ HlEntryStep
    \/ HlLoadCheckStep
    \/ HlExtractStep
    \/ HlSelectCall
    \/ SamplerEnter
    \/ SamplerChunkStep
    \/ SamplerCountStep
    \/ SamplerSortStep
    \/ SamplerSelectStep
    \/ HlCompositeStep

SpecHighlight == InitHighlight /\ [][NextHighlight]_vars

FlippedYs(pages, k, items) ==
    {pages[k].height - items[j].y - items[j].height :
        j \in {j \in 1..Len(items) : items[j].pageIndex = k - 1}}

\* C4: every rectangle drawn for a selected fragment lies at
\* y' = pageHeight - y - height of the fragment, in either variant.
C4_EveryRectangleFlipped ==
    (hl.pc = "returned" /\ hl.result # hlInput.pdfBytes) =>
        \A k \in 1..Len(hl.result.pages) :
            \A j \in 1..Len(hl.result.pages[k].rects) :
                hl.result.pages[k].rects[j].y
                    \in FlippedYs(hl.result.pages, k, samp.result)

(***************************************************************************)
(* SpecMerge: mergePdfs on every pair of a cover document of up to         *)
(* MaxCoverPages pages (or malformed bytes) and a body document.           *)
(***************************************************************************)
MaxCoverPages == 2

CoverHeight == 842

\* The k-th page the cover service renders.
CoverPage(k) == Page(CoverHeight, <<TextRun(<<"T">>, k)>>)

CoverDoc(n) == PdfBytes([k \in 1..n |-> CoverPage(k)], "cover-service")

CoverDocs == {MalformedBytes} \cup {CoverDoc(n) : n \in 0..MaxCoverPages}

MgCall ==
    /\ mg.pc = "idle"
    /\ mg' = MgCalled(mgInput.turnitinPdfBytes, mgInput.documentPdfBytes)
    /\ UNCHANGED exceptMg

MgLoadStep ==
    /\ mg.pc = "load"
    /\ mg' = MgLoad(mg)
    /\ UNCHANGED exceptMg

MgCopyTurnitinStep ==
    /\ mg.pc = "copyTurnitin"
    /\ mg' = MgCopyTurnitin(mg)
    /\ UNCHANGED exceptMg

MgCopyDocumentStep ==
    /\ mg.pc = "copyDocument"
    /\ mg' = MgCopyDocument(mg)
    /\ UNCHANGED exceptMg

MgSaveStep ==
    /\ mg.pc = "save"
    /\ mg' = MgSave(mg)
    /\ UNCHANGED exceptMg

InitMerge ==
    /\ samp = SamplerIdle
    /\ samp2 = SamplerIdle
    /\ tape = <<>>
    /\ sampInput = [textItems |-> <<>>, percentage |-> 0]
    /\ hl = HlIdle
    /\ hlInput = [pdfBytes |-> MalformedBytes, percentage |-> 0]
    /\ mg = MgIdle
    /\ comp = CompIdle
    /\ conv = ConvIdle
    /\ \E a \in CoverDocs, b \in BodyDocs :
          mgInput = [turnitinPdfBytes |-> a, documentPdfBytes |-> b]
    /\ UiIdle

NextMerge ==
    \/ MgCall
    \/ MgLoadStep
    \/ MgCopyTurnitinStep
    \/ MgCopyDocumentStep
    \/ MgSaveStep

SpecMerge == InitMerge /\ [][NextMerge]_vars

\* C5: mergePdfs(A, B) has pageCount(A) + pageCount(B) pages, A's pages first
\* and in their order, then B's pages in their order.
C5_CoverPagesThenBodyPages ==
    mg.pc = "returned" =>
        LET a == mgInput.turnitinPdfBytes.pages
            b == mgInput.documentPdfBytes.pages
            m == mg.result.pages
        IN /\ Len(m) = Len(a) + Len(b)
           /\ \A k \in 1..Len(a) : m[k] = a[k]
           /\ \A k \in 1..Len(b) : m[Len(a) + k] = b[k]

C5_Witness ==
    /\ mg.pc = "returned"
    /\ Len(mgInput.turnitinPdfBytes.pages) >= 2
    /\ Len(mgInput.documentPdfBytes.pages) >= 2
    /\ mgInput.documentPdfBytes.pages[1] # mgInput.documentPdfBytes.pages[2]

(***************************************************************************)
(* Spec: the page component.  The user chooses an accepted file or presses *)
(* Submit up to MaxGestures times in all; timers and the awaited promises  *)
(* of every handleSubmit in flight complete in any order.                  *)
(***************************************************************************)
MaxGestures == 3

Gestures == uploads + Len(submits)

FileSize == 2048

BodyPdf ==
    PdfBytes(<<Page(PageHeight, [j \in 1..3 |-> TextRun(OneWord, j)])>>, "upload")

WordText == <<<<"a", " ", "a">>, <<>>, <<"a">>>>

Files ==
    {File(<<"essay", "pdf">>, TypePdf, FileSize, BodyPdf),
     File(<<"essay", "docx">>, TypeDocx, FileSize, DocxBytes(WordText)),
     File(<<"essay", "docx">>, TypePdf, FileSize, BodyPdf),
     File(<<"essay">>, TypeDocx, FileSize, DocxBytes(WordText)),
     File(<<"notes", "txt">>, "text/plain", FileSize, MalformedBytes),
     File(<<"notes", "pdf">>, "text/plain", FileSize, MalformedBytes),
     File(<<"essay", "pdf">>, TypePdf, MaxSize + 1, BodyPdf)}

\* The options of the AI select the model offers (of '0', '*', '30' ... '100').
AiOptions == {<<"0">>, Star, <<"1", "0", "0">>}

\* The values of floor(Math.random() * 30) the model draws (of 0..29).
AiDraws == {0, 29}

\* What the cover service answers: a two-page report, bytes that are no page
\* document, or a non-2xx status.
CoverResponses ==
    {[status |-> "ok", body |-> CoverDoc(2)],
     [status |-> "ok", body |-> MalformedBytes],
     [status |-> "error", body |-> MalformedBytes]}

FailureMessage == "Failed to generate report"

SuccessMessage == "Report generated and downloaded successfully!"

Submit(r) == IF r \in DOMAIN submits THEN submits[r] ELSE RunUnused

\* handleSubmit has returned: its locals are gone, what is kept is where it
\* ended, the stages it went through and what the cover service answered.
Returned(run, pc, stage) ==
    [RunUnused EXCEPT !.pc = pc, !.failedAt = stage, !.log = run.log,
                      !.coverStatus = run.coverStatus, !.abandoned = run.abandoned]

\* The user turns away from what was submitted: every handleSubmit still in
\* flight (for another file than `file`) is noted as abandoned.  Nothing in the
\* code reads the note.
Abandon(file) ==
    [r \in DOMAIN submits |->
        IF submits[r].pc \in InFlight /\ submits[r].file # file
        THEN [submits[r] EXCEPT !.abandoned = TRUE]
        ELSE submits[r]]

\* The catch block without its two resets.
HandleSubmitCatchNoReset(r, run, stage) ==
    /\ lastAlert' = <<r, FailureMessage>>
    /\ submits' = [submits EXCEPT ![r] = Returned(run, "failed", stage)]
    /\ UNCHANGED <<isUploading, uploadProgress>>
    /\ UNCHANGED <<selectedFile, showModal, aiReportValue, intervals, uploads, downloads>>

\* The catch block of handleSubmit, entered from a throw in `stage` of the
\* handleSubmit whose locals are `run`.
HandleSubmitCatch(r, run, stage) ==
    /\ lastAlert' = <<r, FailureMessage>>
    /\ isUploading' = FALSE
    /\ uploadProgress' = 0
    /\ submits' = [submits EXCEPT ![r] = Returned(run, "failed", stage)]
    /\ UNCHANGED <<selectedFile, showModal, aiReportValue, intervals, uploads, downloads>>

\* handleFile(file), with simulateUpload's first part when the file is accepted.
HandleFile(file) ==
    /\ IF Validate(file) # "ok"
       THEN /\ lastAlert' = <<0, Validate(file)>>
            /\ UNCHANGED <<selectedFile, isUploading, uploadProgress, intervals, uploads,
                           submits>>
       ELSE /\ Gestures < MaxGestures
            /\ selectedFile' = file
            /\ isUploading' = TRUE
            /\ uploadProgress' = 0
            /\ uploads' = uploads + 1
            /\ intervals' = intervals \cup {uploads + 1}
            /\ submits' = Abandon(file)
            /\ UNCHANGED lastAlert
    /\ UNCHANGED <<showModal, aiReportValue, downloads, libVars>>

\* One tick of the interval simulateUpload started.
IntervalTick(i) ==
    /\ i \in intervals
    /\ IF uploadProgress >= 100
       THEN /\ intervals' = intervals \ {i}
            /\ isUploading' = FALSE
            /\ showModal' = TRUE
            /\ uploadProgress' = 100
       ELSE /\ uploadProgress' = uploadProgress + 10
            /\ UNCHANGED <<intervals, isUploading, showModal>>
    /\ UNCHANGED <<selectedFile, aiReportValue, uploads, submits, downloads, lastAlert, libVars>>

\* The select of the modal: setAiReportValue(e.target.value)
SetAiReportValue(v) ==
    /\ showModal
    /\ v # aiReportValue
    /\ aiReportValue' = v
    /\ UNCHANGED <<selectedFile, isUploading, uploadProgress, showModal, intervals,
                   uploads, submits, downloads, lastAlert, libVars>>

\* handleCloseModal (similarityValue and reportTitle, which it also resets,
\* reach nothing but the cover request and are left out)
HandleCloseModal ==
    /\ showModal
    /\ showModal' = FALSE
    /\ aiReportValue' = <<"0">>
    /\ submits' = Abandon(NoFile)
    /\ UNCHANGED <<selectedFile, isUploading, uploadProgress, intervals,
                   uploads, downloads, lastAlert, libVars>>

\* handleSubmit, from the click on the modal's Submit button to its first
\* await.  With selectedFile null it returns at once and changes nothing.
HandleSubmit ==
    /\ showModal
    /\ selectedFile # NoFile
    /\ Gestures < MaxGestures
    /\ submits' = Append(submits,
                         [RunUnused EXCEPT
                             !.pc = "normalising",
                             !.file = selectedFile,
                             !.ai = aiReportValue,
                             !.converted = ExtensionOf(selectedFile) \in {"doc", "docx"},
                             !.log = <<Started("normalise")>>])
    /\ isUploading' = TRUE
    /\ uploadProgress' = 20
    /\ UNCHANGED <<selectedFile, showModal, aiReportValue, intervals, uploads,
                   downloads, lastAlert, libVars>>

\* convertWordToPdf or selectedFile.arrayBuffer() settles.
NormaliseDone(r) ==
    /\ Submit(r).pc = "normalising"
    /\ IF submits[r].converted /\ ConvertThrows(submits[r].file.bytes)
       THEN HandleSubmitCatch(r, submits[r], "normalise")
       ELSE /\ submits' =
                  [submits EXCEPT
                      ![r].documentPdfBytes =
                          IF submits[r].converted
                          THEN ConvertWordToPdf(submits[r].file.bytes)
                          ELSE submits[r].file.bytes,
                      ![r].log = Append(@, Ended("normalise")),
                      ![r].pc = "metadata"]
            /\ uploadProgress' = 40
            /\ UNCHANGED <<selectedFile, isUploading, showModal, aiReportValue,
                           intervals, uploads, downloads, lastAlert>>
    /\ UNCHANGED libVars

\* The metadata reads settle; the request parameters are built and fetch is called.
MetadataDone(r) ==
    /\ Submit(r).pc = "metadata"
    /\ \E d \in AiDraws :
          submits' =
              [submits EXCEPT
                  ![r].aiPercent = IF submits[r].ai = Star
                                   THEN NumberToString(RandomAi(d))
                                   ELSE submits[r].ai,
                  ![r].log = Append(@, Started("cover")),
                  ![r].pc = "fetching"]
    /\ uploadProgress' = 60
    /\ UNCHANGED <<selectedFile, isUploading, showModal, aiReportValue,
                   intervals, uploads, downloads, lastAlert, libVars>>

\* The cover service answers (and response.arrayBuffer() settles).
FetchDone(r) ==
    /\ Submit(r).pc = "fetching"
    /\ \E resp \in CoverResponses, d \in AiDraws :
          IF resp.status # "ok"
          THEN HandleSubmitCatch(r, [submits[r] EXCEPT !.coverStatus = resp.status],
                                 "cover")
          ELSE /\ submits' =
                     [submits EXCEPT
                         ![r].coverStatus = resp.status,
                         ![r].turnitinPdfBytes = resp.body,
                         ![r].aiPercentageNum =
                             IF submits[r].ai = Star THEN RandomAi(d)
                             ELSE ParseInt(submits[r].ai),
                         ![r].log = Append(@, Ended("cover")),
                         ![r].pc = "importing"]
               /\ uploadProgress' = 70
               /\ UNCHANGED <<selectedFile, isUploading, showModal, aiReportValue,
                              intervals, uploads, downloads, lastAlert>>
    /\ UNCHANGED libVars

\* import('./utils/pdfHelpers') settles: highlightPdfText is called, or skipped
\* and mergePdfs called.
ImportDone(r) ==
    /\ Submit(r).pc = "importing"
    /\ IF submits[r].aiPercentageNum > 0
       THEN /\ submits' = [submits EXCEPT ![r].log = Append(@, Started("highlight")),
                                          ![r].pc = "highlighting"]
            /\ UNCHANGED uploadProgress
       ELSE /\ submits' = [submits EXCEPT
                              ![r].highlightedPdfBytes = submits[r].documentPdfBytes,
                              ![r].log = Append(@, Started("merge")),
                              ![r].pc = "merging"]
            /\ uploadProgress' = 85
    /\ UNCHANGED <<selectedFile, isUploading, showModal, aiReportValue,
                   intervals, uploads, downloads, lastAlert, libVars>>

\* highlightPdfText settles, and mergePdfs is called.
HighlightDone(r) ==
    /\ Submit(r).pc = "highlighting"
    /\ \E out \in HighlightOutcomes(hl.variant, submits[r].documentPdfBytes,
                                    submits[r].aiPercentageNum) :
          submits' = [submits EXCEPT
                         ![r].highlightedPdfBytes = out,
                         ![r].log = @ \o <<Ended("highlight"), Started("merge")>>,
                         ![r].pc = "merging"]
    /\ uploadProgress' = 85
    /\ UNCHANGED <<selectedFile, isUploading, showModal, aiReportValue,
                   intervals, uploads, downloads, lastAlert, libVars>>

\* downloadFile(highlightedPdfBytes, ...) would deliver the document unmerged.
DownloadDataUnmerged(run) == run.highlightedPdfBytes

\* What handleSubmit hands to downloadFile.
DownloadData(run) == run.mergedPdfBytes

\* mergePdfs settles; on success the download, the alert and the reset timer.
MergeDone(r) ==
    /\ Submit(r).pc = "merging"
    /\ IF MergeThrows(submits[r].turnitinPdfBytes, submits[r].highlightedPdfBytes)
       THEN HandleSubmitCatch(r, submits[r], "merge")
       ELSE LET merged == MergePdfs(submits[r].turnitinPdfBytes,
                                    submits[r].highlightedPdfBytes)
                run == [submits[r] EXCEPT
                           !.mergedPdfBytes = merged,
                           !.log = @ \o <<Ended("merge"), Started("download"),
                                          Ended("download")>>]
            IN /\ submits' = [submits EXCEPT ![r] = Returned(run, "succeeded", "none")]
               /\ downloads' = Append(downloads,
                                      [submit |-> r, data |-> DownloadData(run),
                                       filename |-> OutputFilename(run.file)])
               /\ uploadProgress' = 100
               /\ lastAlert' = <<r, SuccessMessage>>
               /\ UNCHANGED <<selectedFile, isUploading, showModal, aiReportValue,
                              intervals, uploads>>
    /\ UNCHANGED libVars

\* The setTimeout callback of a successful handleSubmit, one second later.
ResetTimer(r) ==
    /\ Submit(r).pc = "succeeded"
    /\ submits' = [submits EXCEPT ![r].pc = "done"]
    /\ showModal' = FALSE
    /\ aiReportValue' = <<"0">>
    /\ selectedFile' = NoFile
    /\ uploadProgress' = 0
    /\ isUploading' = FALSE
    /\ UNCHANGED <<intervals, uploads, downloads, lastAlert, libVars>>

Init ==
    /\ samp = SamplerIdle
    /\ samp2 = SamplerIdle
    /\ tape = <<>>
    /\ sampInput = [textItems |-> <<>>, percentage |-> 0]
    /\ \E v \in Variants : hl = [HlIdle EXCEPT !.variant = v]
    /\ hlInput = [pdfBytes |-> MalformedBytes, percentage |-> 0]
    /\ mg = MgIdle
    /\ comp = CompIdle
    /\ conv = ConvIdle
    /\ mgInput = [turnitinPdfBytes |-> MalformedBytes, documentPdfBytes |-> MalformedBytes]
    /\ UiIdle

Next ==
    \/ \E file \in Files : HandleFile(file)
    \/ \E i \in 1..MaxGestures : IntervalTick(i)
    \/ \E v \in AiOptions : SetAiReportValue(v)
    \/ HandleCloseModal
    \/ HandleSubmit
    \/ \E r \in 1..MaxGestures :
          \/ NormaliseDone(r)
          \/ MetadataDone(r)
          \/ FetchDone(r)
          \/ ImportDone(r)
          \/ HighlightDone(r)
          \/ MergeDone(r)
          \/ ResetTimer(r)

Spec == Init /\ [][Next]_vars

\* The stage a handleSubmit is waiting for is about to throw.
StageThrows(run) ==
    \/ run.pc = "normalising" /\ run.converted /\ ConvertThrows(run.file.bytes)
    \/ run.pc = "merging"
          /\ MergeThrows(run.turnitinPdfBytes, run.highlightedPdfBytes)

DownloadsOf(r) == {k \in DOMAIN downloads : downloads[k].submit = r}

Last(seq) == seq[Len(seq)]

\* C8: when a fatal stage of a submission fails (convertWordToPdf throws, the
\* cover service answers non-2xx, mergePdfs throws on either input), that step
\* ends the submission as failed, reports the failure, sets isUploading to
\* false and uploadProgress to 0 and downloads nothing; a submission that does
\* not hit such a failure does not end as failed; the failed submission never
\* moves again, its last stage event is the start of the stage that failed, and
\* downloadFile is never called for it.
C8_FatalFailureAborts ==
    /\ [][\A r \in DOMAIN submits :
             LET old == submits[r]
                 new == submits'[r]
             IN /\ old.pc = "failed" => new = old
                /\ (old.pc \in InFlight /\ new.pc # old.pc) =>
                      IF StageThrows(old) \/ new.coverStatus = "error"
                      THEN /\ new.pc = "failed"
                           /\ isUploading' = FALSE
                           /\ uploadProgress' = 0
                           /\ lastAlert' = <<r, FailureMessage>>
                           /\ downloads' = downloads
                      ELSE new.pc # "failed"]_vars
    /\ [](\A r \in DOMAIN submits :
             submits[r].pc = "failed" =>
                 /\ submits[r].failedAt \in {"normalise", "cover", "merge"}
                 /\ Last(submits[r].log) = Started(submits[r].failedAt)
                 /\ DownloadsOf(r) = {})

C8_Witness ==
    \E r \in DOMAIN submits :
        /\ submits[r].pc = "failed"
        /\ submits[r].failedAt = "merge"
        /\ submits[r].coverStatus = "ok"
        /\ lastAlert = <<r, FailureMessage>>
        /\ ~isUploading
        /\ uploadProgress = 0

StageEvents(stages) ==
    Flatten([k \in 1..Len(stages) |-> <<Started(stages[k]), Ended(stages[k])>>])

IsPrefix(s, t) == Len(s) <= Len(t) /\ \A k \in 1..Len(s) : s[k] = t[k]

\* C9: the stage events of every submission are a prefix of normalise, cover,
\* highlight, merge, download (highlight left out when the percentage is not
\* positive), every stage starting after the one before it has ended;
\* downloadFile is called at most once per submission, in the step its mergePdfs
\* completes, with the bytes that mergePdfs returned.
C9_StagesInSequence ==
    /\ [](\A r \in DOMAIN submits :
             /\ \/ IsPrefix(submits[r].log, StageEvents(Stages))
                \/ IsPrefix(submits[r].log,
                            StageEvents(SelectSeq(Stages, LAMBDA st : st # "highlight")))
             /\ Cardinality(DownloadsOf(r)) <= 1
             /\ DownloadsOf(r) # {} =>
                    \E k \in 1..(Len(submits[r].log) - 1) :
                        /\ submits[r].log[k] = Ended("merge")
                        /\ submits[r].log[k + 1] = Started("download"))
    /\ [][downloads' # downloads =>
             \E r \in DOMAIN submits :
                /\ submits[r].pc = "merging"
                /\ ~MergeThrows(submits[r].turnitinPdfBytes,
                                submits[r].highlightedPdfBytes)
                /\ downloads' =
                      Append(downloads,
                             [submit |-> r,
                              data |-> MergePdfs(submits[r].turnitinPdfBytes,
                                                 submits[r].highlightedPdfBytes),
                              filename |-> OutputFilename(submits[r].file)])]_vars

C9_Witness ==
    \E r \in DOMAIN submits :
        /\ submits[r].log = StageEvents(Stages)
        /\ Cardinality(DownloadsOf(r)) = 1
        /\ \E k \in DownloadsOf(r) :
              Len(downloads[k].data.pages) = 3

\* C10: a submission of a file whose media type is application/pdf does not
\* call convertWordToPdf and hands the file's own bytes on as the body; a
\* submission of a file whose media type is one of the two Word types calls
\* convertWordToPdf.
C10_RoutedByMediaKind ==
    \A r \in DOMAIN submits :
        LET run == submits[r]
        IN run.pc \in InFlight =>
              /\ run.file.type = TypePdf =>
                    /\ ~run.converted
                    /\ run.pc # "normalising" => run.documentPdfBytes = run.file.bytes
              /\ run.file.type \in {TypeDoc, TypeDocx} => run.converted

PassesPolicy(file) == file.type \in ValidTypes /\ file.size <= MaxSize

\* C11: the file handleFile has selected, and the file of every handleSubmit in
\* flight, has one of the three allowed media types and a size of at most
\* 10 MiB; a step in which handleFile alerts changes neither selectedFile nor
\* isUploading nor uploadProgress and starts no interval.
C11_OnlyValidatedFiles ==
    /\ [](selectedFile # NoFile => PassesPolicy(selectedFile))
    /\ [](\A r \in DOMAIN submits :
             submits[r].pc \in InFlight => PassesPolicy(submits[r].file))
    /\ [][(lastAlert' # lastAlert /\ lastAlert'[1] = 0) =>
             /\ lastAlert'[2] \in {Validate(f) : f \in Files} \ {"ok"}
             /\ UNCHANGED <<selectedFile, isUploading, uploadProgress, intervals,
                            uploads, submits>>]_vars

\* C12: once the user has closed the modal or chosen another file while a
\* handleSubmit was in flight, that handleSubmit does nothing more: no step of
\* it (its reset timer included) runs a stage, calls downloadFile, or writes
\* selectedFile, showModal, uploadProgress or isUploading.
C12_AbandonedDoesNothing ==
    [][\A r \in DOMAIN submits :
          (submits[r].abandoned /\ submits'[r] # submits[r]) =>
              /\ submits'[r].log = submits[r].log
              /\ downloads' = downloads
              /\ UNCHANGED <<selectedFile, showModal, uploadProgress, isUploading>>]_vars

(***************************************************************************)
(* The order the sort leaves the chunk indices in, as a function of the    *)
(* values its comparator draws.  Every value of RandomClasses is equally   *)
(* likely, so the probability of an order is the share of the draw         *)
(* sequences that lead to it.                                              *)
(***************************************************************************)
\* The most comparisons the sort makes on n indices.
MaxComparisons(n) == (n * (n - 1)) \div 2

ComparatorDraws(n) == [1..MaxComparisons(n) -> RandomClasses]

\* The sort run to its end from s, the k-th comparison drawing t[k].
RECURSIVE SortRun(_, _, _)
SortRun(s, t, k) ==
    IF s.pc # "sorting" THEN s.shuffledIndices
    ELSE SortRun(SortCompare(s, t[k]), t, k + 1)

WaysToOrder(s, q) ==
    Cardinality({t \in ComparatorDraws(Len(s.chunks)) : SortRun(s, t, 1) = q})

\* C13: when the sort of the chunk indices begins, every order of the indices
\* is reached by the same number of equally likely draw sequences, that is,
\* every permutation is equally likely.
C13_UnbiasedShuffle ==
    (samp.pc = "sorting" /\ samp.sortJ = 2 /\ samp.sortPos = 2) =>
        \A q \in IndexOrders(Len(samp.chunks)) :
            WaysToOrder(samp, q) = WaysToOrder(samp, samp.shuffledIndices)

\* The chunks are contiguous and non-empty, their concatenation is the input
\* list, every chunk but the last has 3 to 10 fragments and the last 1 to 10.
ChunksPartitionInput(s) ==
    /\ Flatten(s.chunks) = s.textItems
    /\ \A k \in 1..Len(s.chunks) :
          /\ Len(s.chunks[k]) \in 1..MaxChunkSize
          /\ k < Len(s.chunks) => Len(s.chunks[k]) >= MinChunkSize

\* C14: when the chunking loop has ended, the chunks partition the input list
\* as above, and the loop has drawn one threshold per chunk.
C14_ChunksPartitionOneDrawEach ==
    samp.pc = "counting" =>
        /\ ChunksPartitionInput(samp)
        /\ samp.randomCalls = Len(samp.chunks)

(***************************************************************************)
(* SpecCount: the chunk count of selectRandomChunks on longer fragment     *)
(* lists.  The specification starts where the chunking loop has ended      *)
(* after closing every chunk at three fragments, and takes the step that   *)
(* computes chunksToHighlight.                                             *)
(***************************************************************************)
MaxCountChunks == 14

MaxLongFragments == 13

CountPercentages == {1, 50, 100}

\* 3 * n fragments, the first h of three words and the others of one.
CountItems(n, h) ==
    [k \in 1..(3 * n) |->
        TextItem(IF k <= h THEN ThreeWords ELSE OneWord, (k - 1) \div 2, k)]

\* The chunking loop run to its end, Math.random() returning u every time.
RECURSIVE ChunkLoopAll(_, _)
ChunkLoopAll(s, u) ==
    IF s.pc # "chunking" THEN s ELSE ChunkLoopAll(ChunkLoopIter(s, u), u)

InitCount ==
    /\ samp2 = SamplerIdle
    /\ tape = <<>>
    /\ hl = HlIdle
    /\ hlInput = [pdfBytes |-> MalformedBytes, percentage |-> 0]
    /\ mg = MgIdle
    /\ comp = CompIdle
    /\ conv = ConvIdle
    /\ mgInput = [turnitinPdfBytes |-> MalformedBytes, documentPdfBytes |-> MalformedBytes]
    /\ UiIdle
    /\ \E n \in 1..MaxCountChunks, h \in 0..MaxLongFragments, pct \in CountPercentages :
          /\ h <= 3 * n
          /\ sampInput = [textItems |-> CountItems(n, h), percentage |-> pct]
          /\ samp = ChunkLoopAll(
                        SelectRandomChunksEntry(SamplerCalled(CountItems(n, h), pct)), 0)

NextCount == SamplerCountStep

SpecCount == InitCount /\ [][NextCount]_vars

\* ceil(w / (t / n)) for t > 0 and w <= t: the least c with c * t >= w * n.
CeilOfQuotient(w, t, n) ==
    CHOOSE c \in 0..n : c * t >= w * n /\ (c - 1) * t < w * n

\* C15: for a non-empty fragment list with totalWords > 0 and a percentage in
\* 1..100, the number of chunks the selection loop takes, the least of
\* chunksToHighlight and the number n of chunks, is ceil(w / (t / n)) capped at
\* n, with t the words of the fragment texts joined by single spaces and
\* w = floor(t * p / 100); at 100 it is n.
C15_ChunkCount ==
    (samp.pc \in {"sorting", "selecting"} /\ samp.textItems # <<>>
       /\ samp.percentage \in 1..100 /\ CalculateWordCount(samp.textItems) > 0) =>
        LET t == CalculateWordCount(samp.textItems)
            w == (t * samp.percentage) \div 100
            n == Len(samp.chunks)
            taken == Min(samp.chunksToHighlight, n)
        IN /\ taken = Min(CeilOfQuotient(w, t, n), n)
           /\ samp.percentage = 100 => taken = n

\* The chunks that have a fragment in the result (fragments differ in position).
SelectedChunks(s) ==
    {k \in 1..Len(s.chunks) :
        \E i \in 1..Len(s.result), j \in 1..Len(s.chunks[k]) :
            s.result[i] = s.chunks[k][j]}

\* Chunk k stands whole, adjacent and in its input order in the result.
ChunkStandsWhole(s, k) ==
    \E o \in 0..(Len(s.result) - Len(s.chunks[k])) :
        \A j \in 1..Len(s.chunks[k]) : s.result[o + j] = s.chunks[k][j]

\* C16: the index list the sort leaves is a permutation of the chunk indices;
\* the result holds no fragment twice, every chunk it touches stands in it
\* whole, adjacent and in input order, and the chunks it holds are as many as
\* chunksToHighlight capped at the number of chunks, so that the result is
\* exactly those chunks.
C16_DistinctWholeChunks ==
    /\ (samp.pc \in {"selecting", "returned"} /\ samp.chunks # <<>>) =>
           samp.shuffledIndices \in IndexOrders(Len(samp.chunks))
    /\ (samp.pc = "returned" /\ samp.chunks # <<>>) =>
           /\ \A i, j \in 1..Len(samp.result) : samp.result[i] = samp.result[j] => i = j
           /\ \A k \in SelectedChunks(samp) : ChunkStandsWhole(samp, k)
           /\ Cardinality(SelectedChunks(samp))
                 = Min(samp.chunksToHighlight, Len(samp.chunks))
           /\ Len(samp.result)
                 = Len(Flatten([k \in 1..Len(samp.chunks) |->
                                   IF k \in SelectedChunks(samp) THEN samp.chunks[k]
                                   ELSE <<>>]))

C16_Witness ==
    /\ samp.pc = "returned"
    /\ Len(samp.chunks) = 3
    /\ SelectedChunks(samp) = {1, 3}
    /\ samp.result[1] = samp.chunks[3][1]

(***************************************************************************)
(* SpecComposite: addHighlightsToPdf called with any document and any      *)
(* fragments, those of another document included (a pageIndex past the     *)
(* document's last page).                                                  *)
(***************************************************************************)
MaxCompItems == 3

CompItemLists ==
    UNION {{[k \in 1..m |-> TextItem(OneWord, pi[k], k)] : pi \in [1..m -> 0..MaxDocPages]} :
              m \in 0..MaxCompItems}

CompCall ==
    /\ comp.pc = "idle"
    /\ \E v \in Variants, bytes \in BodyDocs, items \in CompItemLists :
          comp' = CompCalled(v, bytes, items)
    /\ UNCHANGED exceptComp

CompLoadStep ==
    /\ comp.pc = "load"
    /\ comp' = CompLoad(comp)
    /\ UNCHANGED exceptComp

CompDrawStep ==
    /\ comp.pc = "drawing"
    /\ comp' = CompDrawItem(comp)
    /\ UNCHANGED exceptComp

CompSaveStep ==
    /\ comp.pc = "save"
    /\ comp' = CompSave(comp)
    /\ UNCHANGED exceptComp

InitComposite ==
    /\ samp = SamplerIdle
    /\ samp2 = SamplerIdle
    /\ tape = <<>>
    /\ sampInput = [textItems |-> <<>>, percentage |-> 0]
    /\ hl = HlIdle
    /\ hlInput = [pdfBytes |-> MalformedBytes, percentage |-> 0]
    /\ mg = MgIdle
    /\ comp = CompIdle
    /\ conv = ConvIdle
    /\ mgInput = [turnitinPdfBytes |-> MalformedBytes, documentPdfBytes |-> MalformedBytes]
    /\ UiIdle

NextComposite ==
    \/ CompCall
    \/ CompLoadStep
    \/ CompDrawStep
    \/ CompSaveStep

SpecComposite == InitComposite /\ [][NextComposite]_vars

\* The fragments of `items` with pageIndex k, in order.
ItemsOnPage(items, k) == SelectSeq(items, LAMBDA item : item.pageIndex = k)

\* C17: addHighlightsToPdf on a document that loads never raises; the document
\* it returns has the pages of the input, and page k holds one rectangle for
\* each fragment whose pageIndex is k, in the fragments' order, and no other:
\* nothing is drawn for a fragment whose pageIndex is no page of the document,
\* and nothing on a page without fragments.
C17_OneRectanglePerFragmentInRange ==
    /\ comp.pdfBytes.valid => comp.pc # "raised"
    /\ comp.pc = "returned" =>
          /\ Len(comp.result.pages) = Len(comp.pdfBytes.pages)
          /\ \A k \in 1..Len(comp.result.pages) :
                LET on == ItemsOnPage(comp.highlightItems, k - 1)
                    page == comp.result.pages[k]
                IN /\ page.runs = comp.pdfBytes.pages[k].runs
                   /\ Len(page.rects) = Len(on)
                   /\ \A j \in 1..Len(on) :
                         page.rects[j] = RectOf(comp.variant, on[j], page.height)

C17_Witness ==
    /\ comp.pc = "returned"
    /\ Len(comp.result.pages) = 2
    /\ Len(comp.highlightItems) = 3
    /\ comp.highlightItems[1].pageIndex = 2
    /\ comp.highlightItems[2].pageIndex = 1
    /\ comp.highlightItems[3].pageIndex = 2
    /\ comp.result.pages[1].rects = <<>>
    /\ Len(comp.result.pages[2].rects) = 1

(***************************************************************************)
(* SpecConvert: convertWordToPdf on Word documents whose lines are made of *)
(* empty words (two spaces in a row, a blank line), words of which two but *)
(* not three fit on a line, and words wider than a line; texts of up to    *)
(* MaxTextLines lines, and texts of one line repeated to fill a page.      *)
(***************************************************************************)
ShortWord == 30

WideWord == 82

MaxLineWords == 3

MaxTextLines == 2

MaxRepeat == 55

WordLengths == {0, ShortWord, WideWord}

WordOfLength(n) == [k \in 1..n |-> "a"]

RECURSIVE JoinWords(_)
JoinWords(ws) ==
    IF ws = <<>> THEN <<>>
    ELSE IF Len(ws) = 1 THEN ws[1]
    ELSE ws[1] \o <<" ">> \o JoinWords(Tail(ws))

ConvertLineKinds ==
    UNION {{JoinWords([k \in 1..m |-> WordOfLength(ls[k])]) : ls \in [1..m -> WordLengths]} :
              m \in 1..MaxLineWords}

ConvertTexts ==
    UNION {[1..m -> ConvertLineKinds] : m \in 1..MaxTextLines}
      \cup {[k \in 1..MaxRepeat |-> line] : line \in ConvertLineKinds}

ConvertCall ==
    /\ conv.pc = "idle"
    /\ \E bytes \in {DocxBytes(t) : t \in ConvertTexts} \cup {MalformedBytes} :
          conv' = ConvCalled(bytes)
    /\ UNCHANGED exceptConv

ConvertExtractStep ==
    /\ conv.pc = "extract"
    /\ conv' = ConvExtract(conv)
    /\ UNCHANGED exceptConv

ConvertLineStartStep ==
    /\ conv.pc = "line"
    /\ conv.i <= Len(conv.lines)
    /\ conv' = ConvLineStart(conv)
    /\ UNCHANGED exceptConv

ConvertWordStep ==
    /\ conv.pc = "word"
    /\ conv.words # <<>>
    /\ conv' = ConvWord(conv)
    /\ UNCHANGED exceptConv

ConvertLineEndStep ==
    /\ conv.pc = "word"
    /\ conv.words = <<>>
    /\ conv' = ConvLineEnd(conv)
    /\ UNCHANGED exceptConv

ConvertSaveStep ==
    /\ conv.pc = "line"
    /\ conv.i > Len(conv.lines)
    /\ conv' = ConvSave(conv)
    /\ UNCHANGED exceptConv

InitConvert ==
    /\ samp = SamplerIdle
    /\ samp2 = SamplerIdle
    /\ tape = <<>>
    /\ sampInput = [textItems |-> <<>>, percentage |-> 0]
    /\ hl = HlIdle
    /\ hlInput = [pdfBytes |-> MalformedBytes, percentage |-> 0]
    /\ mg = MgIdle
    /\ comp = CompIdle
    /\ conv = ConvIdle
    /\ mgInput = [turnitinPdfBytes |-> MalformedBytes, documentPdfBytes |-> MalformedBytes]
    /\ UiIdle

NextConvert ==
    \/ ConvertCall
    \/ ConvertExtractStep
    \/ ConvertLineStartStep
    \/ ConvertWordStep
    \/ ConvertLineEndStep
    \/ ConvertSaveStep

SpecConvert == InitConvert /\ [][NextConvert]_vars

\* The words of a string: its maximal runs of characters other than a space.
WordsOf(str) ==
    LET n == Len(str)
        starts == {k \in 1..n : str[k] # " " /\ (k = 1 \/ str[k - 1] = " ")}
        start(j) == CHOOSE k \in starts : Cardinality({i \in starts : i < k}) = j - 1
        end(k) == CHOOSE e \in k..n :
                      /\ \A i \in k..e : str[i] # " "
                      /\ e = n \/ str[e + 1] = " "
    IN [j \in 1..Cardinality(starts) |-> SubSeq(str, start(j), end(start(j)))]

RECURSIVE WordsOfAll(_)
WordsOfAll(strs) ==
    IF strs = <<>> THEN <<>> ELSE WordsOf(Head(strs)) \o WordsOfAll(Tail(strs))

\* The strings drawn on the pages, in draw order.
RECURSIVE DrawnLines(_)
DrawnLines(pages) ==
    IF pages = <<>> THEN <<>>
    ELSE [k \in 1..Len(pages[1].runs) |-> pages[1].runs[k].str] \o DrawnLines(Tail(pages))

Fits(str) == WidthUnits(str) <= MaxWidth * 1000

\* C18: the words of the lines drawn by convertWordToPdf, in draw order, are
\* the words of the source text in order; a drawn line of more than one word
\* fits within the maximum width, and a word wider than that is alone on its
\* line; the word loop draws a line only when the current line is non-empty
\* and the current line with the next word appended is wider than the maximum.
C18_GreedyWrapKeepsText ==
    /\ [](conv.pc = "returned" =>
             /\ WordsOfAll(DrawnLines(conv.result.pages)) = WordsOfAll(conv.lines)
             /\ \A k \in 1..Len(DrawnLines(conv.result.pages)) :
                   LET str == DrawnLines(conv.result.pages)[k]
                       ws == WordsOf(str)
                   IN /\ Len(ws) > 1 => Fits(str)
                      /\ (\E j \in 1..Len(ws) : ~Fits(ws[j])) => str = ws[1])
    /\ [][(conv.pc = "word" /\ conv.words # <<>>
             /\ Len(DrawnLines(conv'.pages)) # Len(DrawnLines(conv.pages))) =>
                /\ conv.currentLine # <<>>
                /\ ~Fits(conv.currentLine \o <<" ">> \o Head(conv.words))
                /\ DrawnLines(conv'.pages) = Append(DrawnLines(conv.pages), conv.currentLine)
                /\ conv'.currentLine = Head(conv.words)]_vars

C18_Witness ==
    /\ conv.pc = "returned"
    /\ Len(conv.lines) = 2
    /\ conv.lines[1] = JoinWords(<<WordOfLength(ShortWord), WordOfLength(ShortWord),
                                   WordOfLength(ShortWord)>>)
    /\ conv.lines[2] = JoinWords(<<WordOfLength(WideWord), <<>>, WordOfLength(ShortWord)>>)
    /\ Len(DrawnLines(conv.result.pages)) = 4
    /\ DrawnLines(conv.result.pages)[3] = WordOfLength(WideWord)

\* The lines drawn by a step: those of the page that was the newest before it.
NewRuns(old, new) ==
    LET k == Len(old.pages)
    IN SubSeq(new.pages[k].runs, Len(old.pages[k].runs) + 1, Len(new.pages[k].runs))

\* C19: in convertWordToPdf a line is drawn on the page added last, at a
\* cursor of margin..pageHeight - margin; a step that leaves the cursor below
\* the bottom margin after drawing adds a page and puts the cursor at
\* pageHeight - margin, so that the cursor is within the margins whenever the
\* next line is drawn.
C19_DrawnWithinMargins ==
    /\ [](conv.pc \in {"line", "word"} => conv.y \in Margin..(PageHeight - Margin))
    /\ [](\A k \in 1..Len(conv.pages) : \A j \in 1..Len(conv.pages[k].runs) :
             conv.pages[k].runs[j].transform[6] \in Margin..(PageHeight - Margin))
    /\ [][conv.pc \in {"line", "word"} =>
             /\ \A k \in 1..(Len(conv.pages) - 1) : conv'.pages[k] = conv.pages[k]
             /\ \A j \in 1..Len(NewRuns(conv, conv')) :
                   NewRuns(conv, conv')[j].transform[6] = conv.y
             /\ Len(conv'.pages) \in {Len(conv.pages), Len(conv.pages) + 1}
             /\ Len(conv'.pages) = Len(conv.pages) + 1 <=>
                   (NewRuns(conv, conv') # <<>> /\ conv.y - LineHeight < Margin)
             /\ Len(conv'.pages) = Len(conv.pages) + 1 =>
                   /\ conv'.pages[Len(conv'.pages)].runs = <<>>
                   /\ conv'.y = PageHeight - Margin]_vars

C19_Witness ==
    /\ conv.pc = "returned"
    /\ Len(conv.result.pages) = 2
    /\ Len(conv.result.pages[1].runs) = 54
    /\ conv.result.pages[1].runs[54].transform[6] = Margin
    /\ Len(conv.result.pages[2].runs) >= 1
    /\ conv.result.pages[2].runs[1].transform[6] = PageHeight - Margin

\* C20: in a submission that calls highlightPdfText, the percentage passed to
\* it is the aiPercent the cover service was asked for, whatever the setting of
\* the AI select; under '*' it is one integer of 20..49.
C20_SamePercentageReportedAndHighlighted ==
    \A r \in DOMAIN submits :
        submits[r].pc = "highlighting" =>
            /\ submits[r].aiPercentageNum = ParseInt(submits[r].aiPercent)
            /\ submits[r].ai = Star => submits[r].aiPercentageNum \in 20..49

\* The handleSubmit runs that have not returned and work on `file`.
RunsInFlight(file) ==
    {r \in DOMAIN submits : submits[r].pc \in InFlight /\ submits[r].file = file}

\* C21: at most one handleSubmit is in flight for a selected file, hence at
\* most one request to the cover service; Submit pressed while a run for the
\* selected file has not returned starts no other run.
C21_OnePipelineInFlight ==
    /\ [](\A file \in Files : Cardinality(RunsInFlight(file)) <= 1)
    /\ [](\A file \in Files :
             Cardinality({r \in RunsInFlight(file) : submits[r].pc = "fetching"}) <= 1)
    /\ [][Len(submits') > Len(submits) => RunsInFlight(selectedFile) = {}]_vars

\* C22: uploadProgress is within 0..100 in every state, whatever the order of
\* interval ticks, file choices, handleSubmit's updates and its resets.
C22_ProgressWithinRange ==
    uploadProgress \in 0..100

====
